---- MODULE Spec2Model ----
(***************************************************************************)
(* A model of the ReAct agent (ai_agent/agent.py) and of the JSON-RPC tool *)
(* server it talks to (ai_agent/mcp_server.py).                            *)
(*                                                                         *)
(* Text is modelled by TLA+ strings, character by character where the code *)
(* looks inside it (substring tests, the action regex, strip and split).   *)
(* JSON values are tagged records: Null, Str, Num, List, Dict; a Python    *)
(* dict is a function from its keys to JSON values.                        *)
(***************************************************************************)
EXTENDS Integers, Sequences, FiniteSets, TLC

VARIABLES
    \* ---- tool server (mcp_server.py) ----
    env,            \* what the tools see: the files on disk, the vector search
    srv_pc,         \* "idle" | "received" | "responded"
    inflight,       \* the request body being handled
    response,       \* the envelope mcp_endpoint returned
    call,           \* what happened to the tool callable during the request
    serverUp,       \* the server process is still serving
    failedBefore,   \* some earlier request ended in the except clause
    handled,        \* number of requests handled so far
    \* ---- invoke_tool taken alone ----
    iv_pc, iv_func, iv_params, iv_out, iv_again,
    \* ---- do_action taken alone (agent.py) ----
    da_pc, da_text, da_server, da_out,
    \* ---- one run of run_agent (agent.py) ----
    pc,             \* "off" | "loop" | "decide" | "done" | "raised"
    messages,       \* ReActAgent.messages
    next_prompt,    \* the pending input: Str(text) or Null (None)
    iters,          \* iterations of the for loop begun so far
    result,         \* the reply of the latest step
    model_calls,    \* chat completions requested
    tool_calls,     \* requests posted to the tool server
    last_action,    \* what the latest do_action did
    returned,       \* what run_agent returned
    ended_by,       \* "" | "answer" | "ceiling"
    special         \* replies other than the plain one the model has given

srv_vars == <<env, srv_pc, inflight, response, call, serverUp, failedBefore, handled>>
iv_vars  == <<iv_pc, iv_func, iv_params, iv_out, iv_again>>
da_vars  == <<da_pc, da_text, da_server, da_out>>
ag_vars  == <<pc, messages, next_prompt, iters, result, model_calls, tool_calls,
              last_action, returned, ended_by, special>>
vars     == <<srv_vars, iv_vars, da_vars, ag_vars>>

-----------------------------------------------------------------------------
(* Bounds of the model. *)

MaxRequests == 2        \* requests the server handles in one behaviour
MaxArity    == 3        \* largest parameter count of a callable given to invoke_tool
MaxSpecial  == 1        \* replies other than the plain thought the model gives in one run

-----------------------------------------------------------------------------
(* Python strings. *)

Ch(s, i) == SubSeq(s, i, i)

\* Python: sub in s
Contains(s, sub) ==
    \E i \in 1..(Len(s) - Len(sub) + 1) : SubSeq(s, i, i + Len(sub) - 1) = sub

\* Whitespace for str.strip() and for \s of the re module.
IsSpace(c) == c \in {" ", "\n", "\t", "\r", "\f"}

Min(S) == CHOOSE x \in S : \A y \in S : x <= y
Max(S) == CHOOSE x \in S : \A y \in S : y <= x

\* s without its leading characters that are in cs
LStripSet(s, cs) ==
    SubSeq(s, Min({i \in 1..Len(s) : Ch(s, i) \notin cs} \cup {Len(s) + 1}), Len(s))

\* s without its trailing characters that are in cs
RStripSet(s, cs) ==
    SubSeq(s, 1, Max({i \in 1..Len(s) : Ch(s, i) \notin cs} \cup {0}))

\* Python: s.strip(chars)
StripSet(s, cs) == RStripSet(LStripSet(s, cs), cs)

\* Python: s.strip()
Strip(s) == StripSet(s, {" ", "\n", "\t", "\r", "\f"})

-----------------------------------------------------------------------------
(* JSON values as Python sees them after json.loads. *)

Null      == [t |-> "null"]
Str(s)    == [t |-> "str", s |-> s]
Num(n)    == [t |-> "num", n |-> n]
List(l)   == [t |-> "list", l |-> l]
Dict(d)   == [t |-> "dict", d |-> d]
EmptyDict == Dict(<<>>)

\* Python: d.get(key, default) on a dict d
Get(d, key, default) == IF key \in DOMAIN d THEN d[key] ELSE default

RECURSIVE JoinReprs(_, _)
RECURSIVE PyRepr(_)
\* Python: repr(v), as str() of a list shows its elements
PyRepr(v) ==
    CASE v.t = "null" -> "None"
      [] v.t = "str"  -> IF Contains(v.s, "'") /\ ~Contains(v.s, "\"")
                         THEN "\"" \o v.s \o "\""
                         ELSE "'" \o v.s \o "'"
      [] v.t = "num"  -> ToString(v.n)
      [] v.t = "list" -> "[" \o JoinReprs(v.l, 1) \o "]"
      [] v.t = "dict" -> IF DOMAIN v.d = {} THEN "{}" ELSE "{...}"
JoinReprs(l, i) ==
    IF i > Len(l) THEN ""
    ELSE PyRepr(l[i]) \o (IF i < Len(l) THEN ", " ELSE "") \o JoinReprs(l, i + 1)

\* Python: str(v), what an f-string inserts
PyStr(v) == IF v.t = "str" THEN v.s ELSE PyRepr(v)

\* Python: hash(v) succeeds (lists and dicts are unhashable)
Hashable(v) == v.t \notin {"list", "dict"}

-----------------------------------------------------------------------------
(* The tool callables of mcp_server.py.  A callable is its __name__ and   *)
(* the parameter names inspect.signature reports.                          *)

get_relevant_code      == [name |-> "get_relevant_code", params |-> <<"query">>]
get_code_file_contents == [name |-> "get_code_file_contents", params |-> <<"filename">>]
get_list_of_code_files == [name |-> "get_list_of_code_files", params |-> <<>>]

\* The name -> callable mapping built inside mcp_endpoint.
tools ==
    [GetRelevantCode     |-> get_relevant_code,
     GetCodeFileContents |-> get_code_file_contents,
     GetListOfCodeFiles  |-> get_list_of_code_files]

\* What a callable hands back to its caller: a value or a raised exception,
\* with a record of whether the call was attempted, whether the arguments
\* bound so that the body ran, and the value bound to each parameter.
Returned(v, b)  == [kind |-> "return", value |-> v, text |-> "",
                    attempted |-> TRUE, executed |-> TRUE, binding |-> b]
RaisedIn(txt, b) == [kind |-> "raise", value |-> Null, text |-> txt,
                    attempted |-> TRUE, executed |-> TRUE, binding |-> b]
BindError(txt)  == [kind |-> "raise", value |-> Null, text |-> txt,
                    attempted |-> TRUE, executed |-> FALSE, binding |-> <<>>]
NotCalled(txt)  == [kind |-> "raise", value |-> Null, text |-> txt,
                    attempted |-> FALSE, executed |-> FALSE, binding |-> <<>>]

\* os.path.splitext(filename)[1]: the suffix from the last dot, when that dot
\* is not the leading character.
LastDot(s) == Max({i \in 1..Len(s) : Ch(s, i) = "."} \cup {0})
SplitExt(s) ==
    LET k == LastDot(s) IN IF k > 1 THEN SubSeq(s, k, Len(s)) ELSE ""

valid_exts == {".tsx", ".ts", ".html", ".css"}

HasValidExt(f) == SplitExt(f.name) \in valid_exts
MatchingFiles(fs) ==
    LET kept == SelectSeq(fs, HasValidExt)
    IN [i \in 1..Len(kept) |-> Str(kept[i].name)]

UnboundLocalText == "cannot access local variable 'full_path' where it is not associated with a value"
SearchDownText   == "[Errno 111] Connection refused"

\* The body of a callable, run with its parameters bound to b (in order).
ToolBody(tool_func, b, e) ==
    CASE tool_func.name = "get_relevant_code" ->
            IF e.search = "ok" THEN Returned(Str(e.hits), b)
            ELSE RaisedIn(SearchDownText, b)
      [] tool_func.name = "get_code_file_contents" ->
            LET found == {i \in 1..Len(e.fs) : Str(e.fs[i].name) = b[1]}
            IN IF found = {} THEN RaisedIn(UnboundLocalText, b)
               ELSE LET last == Max(found)
                    IN Returned(Str(Strip(e.fs[last].content)), b)
      [] tool_func.name = "get_list_of_code_files" ->
            Returned(List(MatchingFiles(e.fs)), b)
      [] OTHER -> Returned(List(b), b)

\* Python's call protocol for tool_func(*args, **kwargs): the body runs only
\* when the arguments fit the declared parameters.
PyCall(tool_func, args, kwargs, e) ==
    LET n     == Len(tool_func.params)
        names == {tool_func.params[i] : i \in 1..n}
    IN IF DOMAIN kwargs = {} THEN
           IF Len(args) = n THEN ToolBody(tool_func, args, e)
           ELSE IF Len(args) < n
                THEN BindError(tool_func.name \o "() missing required positional arguments")
                ELSE BindError(tool_func.name \o "() takes " \o ToString(n) \o " positional arguments but more were given")
       ELSE IF ~(DOMAIN kwargs \subseteq names)
            THEN BindError(tool_func.name \o "() got an unexpected keyword argument")
            ELSE IF DOMAIN kwargs # names
                 THEN BindError(tool_func.name \o "() missing required positional arguments")
                 ELSE ToolBody(tool_func, [i \in 1..n |-> kwargs[tool_func.params[i]]], e)

CannotMapText(input_data, tool_func) ==
    "Cannot map input " \o PyStr(input_data) \o " to function " \o tool_func.name

PyTypeName(v) ==
    CASE v.t = "null" -> "NoneType"
      [] v.t = "str"  -> "str"
      [] v.t = "num"  -> "int"
      [] v.t = "list" -> "list"
      [] v.t = "dict" -> "dict"

NoGetText(v) == "'" \o PyTypeName(v) \o "' object has no attribute 'get'"

\* invoke_tool with the list unpacked in reverse order.
invoke_tool_reversed(tool_func, params, e) ==
    IF params.t # "dict" THEN NotCalled(NoGetText(params))
    ELSE
    LET param_names == tool_func.params
        input_data  == Get(params.d, "input", Null)
    IN IF input_data.t = "null"
       THEN PyCall(tool_func, <<>>, <<>>, e)
       ELSE IF input_data.t = "list" /\ Len(input_data.l) = Len(param_names)
       THEN PyCall(tool_func,
                   [i \in 1..Len(input_data.l) |-> input_data.l[Len(input_data.l) + 1 - i]],
                   <<>>, e)
       ELSE IF input_data.t = "str" /\ Len(param_names) = 1
       THEN PyCall(tool_func, <<input_data>>, <<>>, e)
       ELSE IF input_data.t = "dict"
       THEN PyCall(tool_func, <<>>, input_data.d, e)
       ELSE NotCalled(CannotMapText(input_data, tool_func))

\* invoke_tool passing on only the mapping's keys that the callable declares.
invoke_tool_filtering(tool_func, params, e) ==
    IF params.t # "dict" THEN NotCalled(NoGetText(params))
    ELSE
    LET param_names == tool_func.params
        input_data  == Get(params.d, "input", Null)
    IN IF input_data.t = "null"
       THEN PyCall(tool_func, <<>>, <<>>, e)
       ELSE IF input_data.t = "list" /\ Len(input_data.l) = Len(param_names)
       THEN PyCall(tool_func, input_data.l, <<>>, e)
       ELSE IF input_data.t = "str" /\ Len(param_names) = 1
       THEN PyCall(tool_func, <<input_data>>, <<>>, e)
       ELSE IF input_data.t = "dict"
       THEN PyCall(tool_func, <<>>,
                   [k \in DOMAIN input_data.d \cap {param_names[i] : i \in 1..Len(param_names)}
                        |-> input_data.d[k]], e)
       ELSE NotCalled(CannotMapText(input_data, tool_func))

\* invoke_tool(tool_func, params): reconcile params["input"] with the
\* callable's signature and call it.
invoke_tool(tool_func, params, e) ==
    IF params.t # "dict" THEN NotCalled(NoGetText(params))
    ELSE
    LET param_names == tool_func.params
        input_data  == Get(params.d, "input", Null)
    IN IF input_data.t = "null"
       THEN PyCall(tool_func, <<>>, <<>>, e)
       ELSE IF input_data.t = "list" /\ Len(input_data.l) = Len(param_names)
       THEN PyCall(tool_func, input_data.l, <<>>, e)
       ELSE IF input_data.t = "str" /\ Len(param_names) = 1
       THEN PyCall(tool_func, <<input_data>>, <<>>, e)
       ELSE IF input_data.t = "dict"
       THEN PyCall(tool_func, <<>>, input_data.d, e)
       ELSE NotCalled(CannotMapText(input_data, tool_func))

-----------------------------------------------------------------------------
(* The JSON-RPC endpoint. *)

NoCall == [kind |-> "none", value |-> Null, text |-> "",
           attempted |-> FALSE, executed |-> FALSE, binding |-> <<>>]

\* The request body as flask's request.get_json(force=True) sees it: a JSON
\* value, or bytes that do not decode.
InvalidJson    == [t |-> "invalid"]
BadRequestText == "400 Bad Request: The browser (or proxy) sent a request that this server could not understand."

\* An exception that leaves the view function uncaught.
Uncaught == [t |-> "uncaught"]

\* The unknown-method envelope without the request's id.
unknown_method_response_no_id(data, method) ==
    Dict([jsonrpc |-> Str("2.0"),
          id      |-> Null,
          error   |-> Dict([code |-> Num(-32601),
                            message |-> Str("Unknown method: " \o PyStr(method))])])

unknown_method_response(data, method) ==
    Dict([jsonrpc |-> Str("2.0"),
          id      |-> Get(data, "id", Null),
          error   |-> Dict([code |-> Num(-32601),
                            message |-> Str("Unknown method: " \o PyStr(method))])])

\* The success envelope with an error field next to the result.
success_response_with_error(data, value) ==
    Dict([jsonrpc |-> Str("2.0"),
          id      |-> Get(data, "id", Null),
          result  |-> value,
          error   |-> Null])

success_response(data, value) ==
    Dict([jsonrpc |-> Str("2.0"),
          id      |-> Get(data, "id", Null),
          result  |-> value])

\* No except clause: the exception leaves the view function.
except_handler_missing(body, txt) == Uncaught

\* The except clause echoing the request's id.
except_handler_echo_id(body, txt) ==
    Dict([jsonrpc |-> Str("2.0"),
          id      |-> IF body.t = "dict" THEN Get(body.d, "id", Null) ELSE Null,
          error   |-> Dict([code |-> Num(-32603), message |-> Str(txt)])])

\* except Exception as e: ...
except_handler(body, txt) ==
    Dict([jsonrpc |-> Str("2.0"),
          id      |-> Null,
          error   |-> Dict([code |-> Num(-32603), message |-> Str(txt)])])

\* method not in tools
method_not_in_tools(method) == ~(method.t = "str" /\ method.s \in DOMAIN tools)

\* Lines 123-138: the envelope for what invoke_tool came to.
respond(body, data, out) ==
    IF out.kind = "raise"
    THEN [resp |-> except_handler(body, out.text), call |-> out]
    ELSE [resp |-> success_response(data, out.value), call |-> out]

\* mcp_endpoint(): the response it returns and what it did to the callable.
mcp_endpoint(body, e) ==
    IF body.t = "invalid"
    THEN [resp |-> except_handler(body, BadRequestText), call |-> NoCall]
    ELSE IF body.t # "dict"
    THEN [resp |-> except_handler(body, NoGetText(body)), call |-> NoCall]
    ELSE
    LET data   == body.d
        method == Get(data, "method", Null)
        params == Get(data, "params", EmptyDict)
    IN IF ~Hashable(method)
       THEN [resp |-> except_handler(body, "unhashable type: '" \o PyTypeName(method) \o "'"),
             call |-> NoCall]
       ELSE IF method_not_in_tools(method)
       THEN [resp |-> unknown_method_response(data, method), call |-> NoCall]
       ELSE respond(body, data, invoke_tool(tools[method.s], params, e))

-----------------------------------------------------------------------------
(* The requests and environments the server is checked against. *)

Absent == [t |-> "absent"]

FsEmpty == <<>>
FsSite  == << [name |-> "App.tsx",    content |-> " export default App\n"],
              [name |-> "index.html", content |-> "<html></html>"],
              [name |-> "README.md",  content |-> "notes"],
              [name |-> "App.tsx",    content |-> "// copy"] >>

Envs == [fs : {FsEmpty, FsSite}, search : {"ok", "down"}, hits : {"MoneyDisplay (src/MoneyDisplay.tsx)"}]

Methods ==
    {Absent, Null, Num(7), List(<<>>), Str("Nope"),
     Str("GetRelevantCode"), Str("GetCodeFileContents"), Str("GetListOfCodeFiles")}

Inputs ==
    {Null, Num(5), Str("App.tsx"), Str("gone.ts"),
     List(<<>>), List(<<Str("App.tsx")>>), List(<<Str("gone.ts")>>),
     List(<<Str("a"), Str("b")>>),
     EmptyDict, Dict([filename |-> Str("App.tsx")]), Dict([query |-> Str("money")]),
     Dict([filename |-> Str("App.tsx"), extra |-> Num(1)])}

ParamsValues == {Absent, Null, List(<<>>), EmptyDict} \cup {Dict([input |-> v]) : v \in Inputs}

Ids == {Absent, Null, Str("1"), Num(7)}

Obj(m, p, i) ==
    [k \in ((IF m = Absent THEN {} ELSE {"method"}) \cup
            (IF p = Absent THEN {} ELSE {"params"}) \cup
            (IF i = Absent THEN {} ELSE {"id"})) |->
        CASE k = "method" -> m [] k = "params" -> p [] k = "id" -> i]

Bodies ==
    {InvalidJson, Null, List(<<>>)} \cup
    {Dict(Obj(m, p, i)) : m \in Methods, p \in ParamsValues, i \in Ids}

-----------------------------------------------------------------------------
(* The server as a state machine: a client posts a body, the view function *)
(* handles it.                                                             *)

NoBody == [t |-> "none"]

SrvIdle ==
    /\ srv_pc = "idle" /\ inflight = NoBody /\ response = NoBody /\ call = NoCall
    /\ serverUp = TRUE /\ failedBefore = FALSE /\ handled = 0

NoServer == [kind |-> "refused", body |-> Null]

NoAction ==
    [ret |-> Null, matched |-> FALSE, tool |-> "", args |-> <<>>,
     sent |-> FALSE, request |-> Null, propagates |-> FALSE]

DaIdle == da_pc = "off" /\ da_text = "" /\ da_server = NoServer /\ da_out = NoAction

Running == [t |-> "running"]

AgIdle ==
    /\ pc = "off" /\ messages = <<>> /\ next_prompt = Null /\ iters = 0 /\ result = ""
    /\ model_calls = 0 /\ tool_calls = 0 /\ last_action = NoAction
    /\ returned = Running /\ ended_by = "" /\ special = 0

IvIdle ==
    /\ iv_pc = "off" /\ iv_func = get_list_of_code_files /\ iv_params = Null
    /\ iv_out = NoCall /\ iv_again = NoCall

InitServer ==
    /\ env \in Envs
    /\ SrvIdle
    /\ IvIdle
    /\ DaIdle
    /\ AgIdle

\* A client POSTs a body to /mcp.
Post ==
    /\ srv_pc \in {"idle", "responded"}
    /\ serverUp
    /\ handled < MaxRequests
    /\ \E body \in Bodies : inflight' = body
    /\ srv_pc' = "received"
    /\ response' = NoBody
    /\ call' = NoCall
    /\ UNCHANGED <<env, serverUp, failedBefore, handled, iv_vars, da_vars, ag_vars>>

Answered(r) ==
    /\ response' = r.resp
    /\ call' = r.call
    /\ serverUp' = (r.resp # Uncaught)
    /\ failedBefore' = (failedBefore \/ r.call.kind = "raise")

\* The view function runs to its return.
Handle ==
    /\ srv_pc = "received"
    /\ Answered(mcp_endpoint(inflight, env))
    /\ srv_pc' = "responded"
    /\ handled' = handled + 1
    /\ UNCHANGED <<env, inflight, iv_vars, da_vars, ag_vars>>

NextServer == Post \/ Handle

SpecServer == InitServer /\ [][NextServer]_vars

-----------------------------------------------------------------------------
(* invoke_tool taken alone, on callables of every parameter count up to    *)
(* MaxArity.                                                               *)

ParamName(i) == "p" \o ToString(i)

\* def f<n>(p1, ..., pn): return [p1, ..., pn]
TestCallable(n) == [name |-> "f" \o ToString(n), params |-> [i \in 1..n |-> ParamName(i)]]

Callables ==
    {get_relevant_code, get_code_file_contents, get_list_of_code_files}
    \cup {TestCallable(n) : n \in 0..MaxArity}

IvArgs == {Str("a"), Str("b")}

IvInputs ==
    {Null, Num(5), Str("a"), Str("App.tsx")}
    \cup {List(l) : l \in UNION {[1..k -> IvArgs] : k \in 0..(MaxArity + 1)}}
    \cup {Dict([p \in {ParamName(i) : i \in 1..k} |-> Str(p)]) : k \in 0..MaxArity}
    \cup {Dict([filename |-> Str("App.tsx")]), Dict([p1 |-> Str("a"), extra |-> Str("b")])}

IvParams == {Null, EmptyDict} \cup {Dict([input |-> v]) : v \in IvInputs}

InitInvoke ==
    /\ env \in Envs
    /\ SrvIdle
    /\ iv_pc = "ready"
    /\ iv_func \in Callables
    /\ iv_params \in IvParams
    /\ iv_out = NoCall
    /\ iv_again = NoCall
    /\ DaIdle
    /\ AgIdle

\* result = invoke_tool(tool_func, params)
Invoke ==
    /\ iv_pc = "ready"
    /\ iv_out' = invoke_tool(iv_func, iv_params, env)
    /\ iv_pc' = "once"
    /\ UNCHANGED <<srv_vars, iv_func, iv_params, iv_again, da_vars, ag_vars>>

\* The same dispatch a second time.
InvokeAgain ==
    /\ iv_pc = "once"
    /\ iv_again' = invoke_tool(iv_func, iv_params, env)
    /\ iv_pc' = "twice"
    /\ UNCHANGED <<srv_vars, iv_func, iv_params, iv_out, da_vars, ag_vars>>

NextInvoke == Invoke \/ InvokeAgain

SpecInvoke == InitInvoke /\ [][NextInvoke]_vars

-----------------------------------------------------------------------------
(* agent.py: the action parser and RPC client, do_action.                  *)

Letters == "abcdefghijklmnopqrstuvwxyzABCDEFGHIJKLMNOPQRSTUVWXYZ0123456789_"

\* The character class [a-zA-Z0-9_]
IdentChars == {Ch(Letters, i) : i \in 1..Len(Letters)}

\* First index >= i of s that is not whitespace (Len(s) + 1 when none).
SkipSpace(s, i) ==
    IF i > Len(s) THEN i
    ELSE Min({j \in i..Len(s) : ~IsSpace(Ch(s, j))} \cup {Len(s) + 1})

\* First index >= i of s that is not an identifier character.
IdentEnd(s, i) ==
    IF i > Len(s) THEN i
    ELSE Min({j \in i..Len(s) : Ch(s, j) \notin IdentChars} \cup {Len(s) + 1})

\* First index >= i of s holding a newline (Len(s) + 1 when none): where a
\* greedy .+ started at i stops.
LineEnd(s, i) ==
    IF i > Len(s) THEN i
    ELSE Min({j \in i..Len(s) : Ch(s, j) = "\n"} \cup {Len(s) + 1})

\* Action:\s*([a-zA-Z0-9_]+) matches at index i of s.
MatchesAt(s, i) ==
    /\ i + 6 <= Len(s)
    /\ SubSeq(s, i, i + 6) = "Action:"
    /\ LET j == SkipSpace(s, i + 7) IN j <= Len(s) /\ Ch(s, j) \in IdentChars

NoMatch == [matched |-> FALSE, group1 |-> "", has2 |-> FALSE, group2 |-> ""]

\* The optional group (?::\s*(.+))? tried at index k, just behind the
\* identifier s[j..k-1]: it takes part when a colon is at k and, after some
\* of the whitespace behind it, a character other than newline is left for
\* .+ to start on; the greedy \s* keeps as much whitespace as it can.
group_starts(s, k) ==
    IF k <= Len(s) /\ Ch(s, k) = ":"
    THEN {q \in (k + 1)..SkipSpace(s, k + 1) : q <= Len(s) /\ Ch(s, q) # "\n"}
    ELSE {}

match_groups(s, j, k, qs) ==
    IF qs = {}
    THEN [matched |-> TRUE, group1 |-> SubSeq(s, j, k - 1), has2 |-> FALSE, group2 |-> ""]
    ELSE [matched |-> TRUE, group1 |-> SubSeq(s, j, k - 1),
          has2 |-> TRUE, group2 |-> SubSeq(s, Max(qs), LineEnd(s, Max(qs)) - 1)]

match_ident(s, j, k) == match_groups(s, j, k, group_starts(s, k))

match_from(s, j) == match_ident(s, j, IdentEnd(s, j))

leftmost(s, starts) ==
    IF starts = {} THEN NoMatch ELSE match_from(s, SkipSpace(s, Min(starts) + 7))

\* re.search(r"Action:\s*([a-zA-Z0-9_]+)(?::\s*(.+))?", s): the leftmost
\* match, every quantifier greedy.
re_search(s) == leftmost(s, {i \in 1..Len(s) : MatchesAt(s, i)})

\* Python: s.split(",")
SplitComma(s) ==
    LET commas   == {i \in 1..Len(s) : Ch(s, i) = ","}
        Nth(n)   == CHOOSE c \in commas : Cardinality({x \in commas : x <= c}) = n
        pieces   == Cardinality(commas) + 1
        First(n) == IF n = 1 THEN 1 ELSE Nth(n - 1) + 1
        Last(n)  == IF n = pieces THEN Len(s) ELSE Nth(n) - 1
    IN [n \in 1..pieces |-> SubSeq(s, First(n), Last(n))]

\* The pieces stripped of whitespace only, their quotes kept.
SplitArgs_keep_quotes(raw_args) ==
    LET pieces == SplitComma(raw_args)
    IN [n \in 1..Len(pieces) |-> Strip(pieces[n])]

\* [arg.strip().strip("'\"") for arg in raw_args.split(",")]
SplitArgs(raw_args) ==
    LET pieces == SplitComma(raw_args)
    IN [n \in 1..Len(pieces) |-> StripSet(Strip(pieces[n]), {"'", "\""})]

\* The payload with a null input when the Action has no arguments.
payload_null_when_empty(tool, args) ==
    Dict([jsonrpc |-> Str("2.0"),
          method  |-> Str(tool),
          params  |-> Dict([input |-> IF args = <<>> THEN Null
                                      ELSE List([n \in 1..Len(args) |-> Str(args[n])])]),
          id      |-> Str("1")])

\* The JSON-RPC payload do_action posts.
payload(tool, args) ==
    Dict([jsonrpc |-> Str("2.0"),
          method  |-> Str(tool),
          params  |-> Dict([input |-> List([n \in 1..Len(args) |-> Str(args[n])])]),
          id      |-> Str("1")])

\* What the statements inside the try block come to: an observation, or an
\* exception with its text.
Observed(v) == [exc |-> FALSE, text |-> "", observation |-> v]
Throws(txt) == [exc |-> TRUE, text |-> txt, observation |-> Null]

\* Lines 86-91 with the error branch tested before the result branch.
extract_error_first(mcp_result) ==
    IF mcp_result.t = "dict" /\ "error" \in DOMAIN mcp_result.d
    THEN LET err == mcp_result.d.error
         IN IF err.t = "dict"
            THEN Observed(Str("Error: " \o PyStr(Get(err.d, "message", Str("Unknown error")))))
            ELSE Throws(NoGetText(err))
    ELSE IF mcp_result.t = "dict" /\ "result" \in DOMAIN mcp_result.d
    THEN Observed(mcp_result.d.result)
    ELSE Observed(Str("Error: Invalid MCP server response"))

\* Lines 86-91: pick the observation out of the decoded response.
extract(mcp_result) ==
    CASE mcp_result.t = "dict" ->
            IF "result" \in DOMAIN mcp_result.d
            THEN Observed(mcp_result.d.result)
            ELSE IF "error" \in DOMAIN mcp_result.d
            THEN LET err == mcp_result.d.error
                 IN IF err.t = "dict"
                    THEN Observed(Str("Error: " \o PyStr(Get(err.d, "message", Str("Unknown error")))))
                    ELSE Throws(NoGetText(err))
            ELSE Observed(Str("Error: Invalid MCP server response"))
      [] mcp_result.t = "list" ->
            IF \E n \in 1..Len(mcp_result.l) : mcp_result.l[n] = Str("result")
            THEN Throws("list indices must be integers or slices, not str")
            ELSE IF \E n \in 1..Len(mcp_result.l) : mcp_result.l[n] = Str("error")
            THEN Throws("list indices must be integers or slices, not str")
            ELSE Observed(Str("Error: Invalid MCP server response"))
      [] mcp_result.t = "str" ->
            IF Contains(mcp_result.s, "result") \/ Contains(mcp_result.s, "error")
            THEN Throws("string indices must be integers, not 'str'")
            ELSE Observed(Str("Error: Invalid MCP server response"))
      [] OTHER -> Throws("argument of type '" \o PyTypeName(mcp_result) \o "' is not iterable")

\* Lines 81-83: requests.post, raise_for_status and resp.json() against a
\* server that behaves as srv says; "real" is the server of mcp_server.py.
exchange(request, srv, e) ==
    CASE srv.kind = "refused"    -> Throws("Connection refused")
      [] srv.kind = "timeout"    -> Throws("Read timed out. (read timeout=10)")
      [] srv.kind = "http_error" -> Throws("500 Server Error: INTERNAL SERVER ERROR for url: http://localhost:5000/mcp")
      [] srv.kind = "non_json"   -> Throws("Expecting value: line 1 column 1 (char 0)")
      [] srv.kind = "json"       -> extract(srv.body)
      [] srv.kind = "real"       -> extract(mcp_endpoint(request, e).resp)

\* An except clause that lets the exception through.
except_clause_reraise(txt) == [propagates |-> TRUE, observation |-> Null]

\* except Exception as e: observation = f"Error calling MCP server: {e}"
except_clause(txt) ==
    [propagates |-> FALSE, observation |-> Str("Error calling MCP server: " \o txt)]

\* Lines 93-99: the except clause when the try block raised, then the
\* formatted observation is returned.
conclude(tool, args, req, fin) ==
    [ret        |-> IF fin.propagates THEN Null
                    ELSE Str("Observation:\n" \o PyStr(fin.observation)),
     matched    |-> TRUE,
     tool       |-> tool,
     args       |-> args,
     sent       |-> TRUE,
     request    |-> req,
     propagates |-> fin.propagates]

after_try(tool, args, req, got) ==
    conclude(tool, args, req,
             IF got.exc THEN except_clause(got.text)
             ELSE [propagates |-> FALSE, observation |-> got.observation])

\* Lines 70-83: build the payload and post it.
send(tool, args, req, srv, e) == after_try(tool, args, req, exchange(req, srv, e))

\* Lines 60-68: the tool name and the argument list of a match.
call_tool(tool, args, srv, e) == send(tool, args, payload(tool, args), srv, e)

matched_action(match, srv, e) ==
    IF ~match.matched THEN NoAction
    ELSE call_tool(Strip(match.group1),
                   IF match.has2 /\ match.group2 # "" THEN SplitArgs(match.group2) ELSE <<>>,
                   srv, e)

\* do_action(result): what it returns, what it parsed and what it sent.
do_action(reply, srv, e) == matched_action(re_search(reply), srv, e)

-----------------------------------------------------------------------------
(* do_action taken alone, on texts and server behaviours drawn from        *)
(* bounded sets.                                                           *)

ErrorWith(fields) == Dict([error |-> Dict(fields)])

JsonBodies ==
    {Dict([result |-> Str("ping")]),
     Dict([result |-> List(<<Str("App.tsx"), Str("index.html")>>)]),
     Dict([result |-> Null]),
     Dict([result |-> Str("ok"), error |-> Dict([code |-> Num(-32603), message |-> Str("boom")])]),
     ErrorWith([code |-> Num(-32603), message |-> Str("boom")]),
     ErrorWith([code |-> Num(-32601)]),
     Dict([error |-> Str("oops")]),
     Dict([error |-> Null]),
     Dict([id |-> Str("1")]),
     EmptyDict,
     List(<<>>), List(<<Str("result")>>), List(<<Str("error")>>),
     Str("no result"), Str("an error"), Str("pong"),
     Num(0), Null}

Servers ==
    {[kind |-> k, body |-> Null] : k \in {"refused", "timeout", "http_error", "non_json", "real"}}
    \cup {[kind |-> "json", body |-> b] : b \in JsonBodies}

ActionTexts ==
    {"Thought: done",
     "Action: Foo: a, 'b', \"c\"",
     "Thought: t\nAction: Foo: a, 'b', \"c\"\nPAUSE",
     "Action: Bar\nAction: Foo: a, 'b', \"c\"",
     "Action: Foo: a, 'b', \"c\"\nAction: Bar: z",
     "PAUSE\nAction: ???\nAction: Foo: a, 'b', \"c\"\nthen wait",
     "Action: GetListOfCodeFiles\nPAUSE",
     "Action: GetCodeFileContents: App.tsx\nPAUSE",
     "Action: GetCodeFileContents: gone.ts",
     "Action: GetCodeFileContents: a, b",
     "Action: GetRelevantCode: \"money display\"\nPAUSE",
     "Action: GetListOfCodeFiles: src\nPAUSE",
     "Action: GetCodeFileContents\nPAUSE",
     "Action: GetRelevantCode\nPAUSE",
     "Action: GetRelevantCode: money, display, code\nPAUSE",
     "Action: Nope: x",
     "Action:Echo:ping",
     "Action:\n Echo:\n  ping\nPAUSE",
     "Action: Echo: ",
     "Action: Echo:\n",
     "Action: Echo: ,",
     "Action: Echo: ''a'', \"",
     "PAUSE\nAction: ???",
     "Action:",
     "action: Echo: ping"}

InitAction ==
    /\ env \in Envs
    /\ SrvIdle
    /\ IvIdle
    /\ da_pc = "ready"
    /\ da_text \in ActionTexts
    /\ da_server \in Servers
    /\ da_out = NoAction
    /\ AgIdle

\* next_prompt = do_action(result)
DoAction ==
    /\ da_pc = "ready"
    /\ da_out' = do_action(da_text, da_server, env)
    /\ da_pc' = "returned"
    /\ UNCHANGED <<srv_vars, iv_vars, da_text, da_server, ag_vars>>

NextAction == DoAction

SpecAction == InitAction /\ [][NextAction]_vars

-----------------------------------------------------------------------------
(* agent.py: ReActAgent and run_agent.                                     *)

max_iterations == 10

system_prompt == "You run in a loop of Thought, Action, PAUSE, Observation."

\* self.messages.append(m) with the earlier history dropped.
append_forgetting(msgs, m) == <<msgs[1], m>>

\* self.messages.append(m)
append(msgs, m) == Append(msgs, m)

\* if user_input and user_input.strip():
has_input(user_input) ==
    user_input.t = "str" /\ user_input.s # "" /\ Strip(user_input.s) # ""

\* step appending the reply before the user input.
step_reply_first(msgs, user_input, content) ==
    LET with_reply == append(msgs, [role |-> "assistant", content |-> content])
    IN IF has_input(user_input)
       THEN append(with_reply, [role |-> "user", content |-> user_input.s])
       ELSE with_reply

\* ReActAgent.step(user_input) when the model replies with content: the new
\* conversation.
step(msgs, user_input, content) ==
    LET with_user == IF has_input(user_input)
                     THEN append(msgs, [role |-> "user", content |-> user_input.s])
                     ELSE msgs
    IN append(with_user, [role |-> "assistant", content |-> content])

\* if "PAUSE" in result and "Action: " in result:
wants_action(res) == Contains(res, "PAUSE") /\ Contains(res, "Action: ")

\* The answer test as result.startswith(answer_prefix).
has_answer_at_start(res) == Len(res) >= 8 /\ SubSeq(res, 1, 8) = "Answer: "

\* if answer_prefix in result:
has_answer(res) == Contains(res, "Answer: ")

\* The loop test letting one iteration too many through.
loop_continues_inclusive(n) == n <= max_iterations

\* for _ in range(max_iterations): another iteration begins after n of them
loop_continues(n) == n < max_iterations

PlainReply == "Thought: I need to see the code."

ActionReply == "Thought: look\nPAUSE\nAction: GetCodeFileContents: App.tsx"

Replies ==
    {PlainReply,
     ActionReply,
     "PAUSE\nAction: ???",
     "PAUSE\nAction: ???\nAnswer: done",
     "Action: GetListOfCodeFiles\nPAUSE\nAnswer: done",
     "Action: Echo: ping\nAnswer: done",
     "Answer: done"}

UserPrompts == {"", "My Playwright test failed. What is the fix?"}

AgentServers ==
    {[kind |-> "real", body |-> Null],
     [kind |-> "timeout", body |-> Null]}

AgentEnv == [fs |-> FsSite, search |-> "ok", hits |-> "MoneyDisplay (src/MoneyDisplay.tsx)"]

\* run_agent(user_prompt) up to the head of its loop.
Init ==
    /\ env = AgentEnv
    /\ SrvIdle
    /\ IvIdle
    /\ DaIdle
    /\ pc = "loop"
    /\ messages = <<[role |-> "system", content |-> Strip(system_prompt)]>>
    /\ next_prompt \in {Str(u) : u \in UserPrompts}
    /\ iters = 0
    /\ result = ""
    /\ model_calls = 0
    /\ tool_calls = 0
    /\ last_action = NoAction
    /\ returned = Running
    /\ ended_by = ""
    /\ special = 0

\* result = agent.step(next_prompt)
Step ==
    /\ pc = "loop"
    /\ loop_continues(iters)
    /\ \E content \in Replies :
          /\ (wants_action(content) => special < MaxSpecial)
          /\ messages' = step(messages, next_prompt, content)
          /\ result' = content
          /\ special' = IF wants_action(content) THEN special + 1 ELSE special
    /\ iters' = iters + 1
    /\ model_calls' = model_calls + 1
    /\ pc' = "decide"
    /\ UNCHANGED <<srv_vars, iv_vars, da_vars, next_prompt, tool_calls, last_action,
                   returned, ended_by>>

\* The action tried again, up to three requests, while the observation
\* reports a failed exchange.
Acted_retrying(out) ==
    /\ last_action' = out
    /\ next_prompt' = out.ret
    /\ tool_calls' = IF out.sent THEN tool_calls + 1 ELSE tool_calls
    /\ pc' = IF out.propagates THEN "raised"
             ELSE IF out.sent /\ tool_calls < 2
                     /\ Contains(out.ret.s, "Error calling MCP server: ")
                  THEN "decide"
                  ELSE "loop"

\* do_action(result) called without its value being assigned to next_prompt.
Acted_unassigned(out) ==
    /\ last_action' = out
    /\ next_prompt' = next_prompt
    /\ tool_calls' = IF out.sent THEN tool_calls + 1 ELSE tool_calls
    /\ pc' = IF out.propagates THEN "raised" ELSE "loop"

Acted(out) ==
    /\ last_action' = out
    /\ next_prompt' = out.ret
    /\ tool_calls' = IF out.sent THEN tool_calls + 1 ELSE tool_calls
    /\ pc' = IF out.propagates THEN "raised" ELSE "loop"

\* next_prompt = do_action(result); continue
Act ==
    /\ pc = "decide"
    /\ wants_action(result)
    /\ \E srv \in AgentServers : Acted(do_action(result, srv, env))
    /\ UNCHANGED <<srv_vars, iv_vars, da_vars, messages, iters, result, model_calls,
                   returned, ended_by, special>>

\* if answer_prefix in result: break
Answer ==
    /\ pc = "decide"
    /\ ~wants_action(result)
    /\ has_answer(result)
    /\ pc' = "done"
    /\ returned' = Null
    /\ ended_by' = "answer"
    /\ UNCHANGED <<srv_vars, iv_vars, da_vars, messages, next_prompt, iters, result,
                   model_calls, tool_calls, last_action, special>>

\* Neither test holds: the loop body ends and the next iteration begins.
Continue ==
    /\ pc = "decide"
    /\ ~wants_action(result)
    /\ ~has_answer(result)
    /\ pc' = "loop"
    /\ UNCHANGED <<srv_vars, iv_vars, da_vars, messages, next_prompt, iters, result,
                   model_calls, tool_calls, last_action, returned, ended_by, special>>

\* range(max_iterations) is used up: run_agent falls off its end.
Exhausted ==
    /\ pc = "loop"
    /\ ~loop_continues(iters)
    /\ pc' = "done"
    /\ returned' = Null
    /\ ended_by' = "ceiling"
    /\ UNCHANGED <<srv_vars, iv_vars, da_vars, messages, next_prompt, iters, result,
                   model_calls, tool_calls, last_action, special>>

Next == Step \/ Act \/ Answer \/ Continue \/ Exhausted

Spec == Init /\ [][Next]_vars

-----------------------------------------------------------------------------
(* Properties of the endpoint (checked under SpecServer).                  *)

RegisteredNames == {"GetRelevantCode", "GetCodeFileContents", "GetListOfCodeFiles"}

ReqMethod == Get(inflight.d, "method", Null)
ReqId     == Get(inflight.d, "id", Null)

IsRegisteredName(m) == m.t = "str" /\ m.s \in RegisteredNames

HasField(r, f) == r.t = "dict" /\ f \in DOMAIN r.d

IsErrorEnvelope(r, code) ==
    /\ HasField(r, "error")
    /\ r.d.error.t = "dict"
    /\ "code" \in DOMAIN r.d.error.d
    /\ r.d.error.d.code = Num(code)

UnknownMethodOutcome ==
    /\ response = Dict([jsonrpc |-> Str("2.0"),
                        id      |-> ReqId,
                        error   |-> Dict([code |-> Num(-32601),
                                          message |-> Str("Unknown method: " \o PyStr(ReqMethod))])])
    /\ ~call.attempted
    /\ ~call.executed

\* C5 (as stated): every request whose method is not a registered tool name
\* is answered with the -32601 envelope carrying "Unknown method: <method>"
\* and the request's id, and no callable is invoked.
C5_Original ==
    (srv_pc = "responded" /\ inflight.t = "dict" /\ ~IsRegisteredName(ReqMethod))
        => UnknownMethodOutcome

\* C5 (amended): every request whose method is a string, number, null or
\* absent (a value Python can look up in the tools dict) and is not a
\* registered tool name is answered with the -32601 envelope carrying
\* "Unknown method: <method>" and the request's id, and no callable is invoked.
C5_UnknownMethod ==
    (srv_pc = "responded" /\ inflight.t = "dict" /\ Hashable(ReqMethod)
        /\ ~IsRegisteredName(ReqMethod))
        => UnknownMethodOutcome

C5_Witness ==
    /\ srv_pc = "responded" /\ inflight.t = "dict"
    /\ ReqMethod = Str("Nope") /\ ReqId = Str("1")
    /\ IsErrorEnvelope(response, -32601)

\* C6: a failure raised while a registered callable executes comes back as a
\* -32603 error envelope, the server keeps serving, and a request handled
\* after such a failure is answered as on a fresh server: a call that binds
\* and returns gives the result envelope with the request's id.
C6_FailureContained ==
    /\ serverUp
    /\ (srv_pc = "responded" /\ call.executed /\ call.kind = "raise")
          => IsErrorEnvelope(response, -32603)
    /\ (srv_pc = "responded" /\ failedBefore /\ call.kind = "return")
          => (HasField(response, "result") /\ response.d.result = call.value
              /\ response.d.id = ReqId)
    /\ (srv_pc = "received" /\ failedBefore) => ENABLED Handle

C6_Witness ==
    /\ srv_pc = "responded" /\ failedBefore /\ handled = 2
    /\ call.kind = "return" /\ call.executed
    /\ HasField(response, "result")

\* C7: every response carries exactly one of the fields result and error.
C7_ExactlyOneField ==
    srv_pc = "responded"
        => (response.t = "dict"
            /\ (("result" \in DOMAIN response.d) # ("error" \in DOMAIN response.d)))

C7_Witness ==
    /\ srv_pc = "responded" /\ failedBefore /\ call.kind = "return"
    /\ "result" \in DOMAIN response.d /\ "error" \notin DOMAIN response.d

\* C8: the response id is the request id on the success and unknown-method
\* paths, and null on every path through the except clause (code -32603),
\* whatever the request id was.
C8_ResponseId ==
    srv_pc = "responded" =>
        /\ HasField(response, "id")
        /\ HasField(response, "result") => response.d.id = ReqId
        /\ IsErrorEnvelope(response, -32601) => response.d.id = ReqId
        /\ IsErrorEnvelope(response, -32603) => response.d.id = Null
        /\ call.kind = "raise" => IsErrorEnvelope(response, -32603)
        /\ (HasField(response, "result") \/ IsErrorEnvelope(response, -32601)
              \/ IsErrorEnvelope(response, -32603))

C8_Witness ==
    /\ srv_pc = "responded" /\ inflight.t = "dict" /\ ReqId = Str("1")
    /\ call.kind = "raise"
    /\ IsErrorEnvelope(response, -32603) /\ response.d.id = Null

\* The request names a registered tool and its params.input is a mapping.
ReqParams == Get(inflight.d, "params", EmptyDict)

MappingRequest ==
    /\ srv_pc = "responded" /\ inflight.t = "dict"
    /\ IsRegisteredName(ReqMethod)
    /\ ReqParams.t = "dict"
    /\ "input" \in DOMAIN ReqParams.d
    /\ ReqParams.d.input.t = "dict"

ReqMapping == ReqParams.d.input.d

DeclaredOf(m) == tools[m.s].params

DeclaredNames(m) == {DeclaredOf(m)[i] : i \in 1..Len(DeclaredOf(m))}

\* C17: a mapping given as params.input invokes the callable by parameter
\* name exactly when its keys are the callable's declared parameter names;
\* a mapping with an extra or a missing name comes back to the client as an
\* error envelope with code -32603, and the tool's body does not execute.
C17_MappingByName ==
    MappingRequest =>
        IF DOMAIN ReqMapping = DeclaredNames(ReqMethod)
        THEN /\ call.executed
             /\ Len(call.binding) = Len(DeclaredOf(ReqMethod))
             /\ \A i \in 1..Len(call.binding) :
                    call.binding[i] = ReqMapping[DeclaredOf(ReqMethod)[i]]
        ELSE /\ ~call.executed
             /\ call.kind = "raise"
             /\ IsErrorEnvelope(response, -32603)
             /\ ~HasField(response, "result")

C17_Witness ==
    /\ MappingRequest
    /\ ReqMethod = Str("GetCodeFileContents")
    /\ DOMAIN ReqMapping = {"filename", "extra"}
    /\ IsErrorEnvelope(response, -32603)
    /\ ~call.executed

-----------------------------------------------------------------------------
(* Properties of invoke_tool (checked under SpecInvoke).                   *)

IvInput == IF iv_params.t = "dict" THEN Get(iv_params.d, "input", Null) ELSE Absent
IvArity == Len(iv_func.params)

\* C9: a zero-parameter callable with absent input is invoked with no
\* arguments; a one-parameter callable with a string input is invoked with
\* that string; an N-parameter callable with a list of length N is invoked
\* with element i bound to parameter i; a repeated dispatch binds the same.
C9_BasicShapes ==
    iv_pc \in {"once", "twice"} =>
        /\ (IvArity = 0 /\ IvInput = Null)
              => (iv_out.executed /\ iv_out.binding = <<>>)
        /\ (IvArity = 1 /\ IvInput.t = "str")
              => (iv_out.executed /\ iv_out.binding = <<IvInput>>)
        /\ (IvInput.t = "list" /\ Len(IvInput.l) = IvArity)
              => (/\ iv_out.executed
                  /\ Len(iv_out.binding) = IvArity
                  /\ \A i \in 1..IvArity : iv_out.binding[i] = IvInput.l[i])
        /\ iv_pc = "twice"
              => (iv_again.executed = iv_out.executed /\ iv_again.binding = iv_out.binding)

C9_Witness ==
    /\ iv_pc = "twice" /\ IvArity = MaxArity
    /\ IvInput.t = "list" /\ Len(IvInput.l) = IvArity
    /\ iv_out.executed
    /\ iv_out.binding[1] # iv_out.binding[IvArity]

StartsWith(str, prefix) ==
    Len(str) >= Len(prefix) /\ SubSeq(str, 1, Len(prefix)) = prefix

\* None of the resolution rules a-d applies to the input.
NoRuleApplies ==
    /\ iv_params.t = "dict"
    /\ \/ IvInput.t = "null" /\ IvArity >= 1
       \/ IvInput.t = "list" /\ Len(IvInput.l) # IvArity
       \/ IvInput.t = "str" /\ IvArity # 1
       \/ IvInput.t = "num"

UnmappableFailure(out) ==
    /\ out.kind = "raise"
    /\ StartsWith(out.text, "Cannot map input ")
    /\ Contains(out.text, PyStr(IvInput))
    /\ Contains(out.text, iv_func.name)
    /\ ~out.attempted
    /\ ~out.executed

\* C16: whenever none of the rules a-d applies to params.input (null or
\* absent input with a callable of one or more parameters, a list whose
\* length differs from the parameter count, a string with a callable that
\* does not take exactly one parameter, a non-string scalar), invoke_tool
\* raises the unmappable-input failure naming the input and the callable,
\* and the callable is not invoked.
C16_Unmappable ==
    (iv_pc \in {"once", "twice"} /\ NoRuleApplies) => UnmappableFailure(iv_out)

-----------------------------------------------------------------------------
(* Properties of do_action (checked under SpecAction).                     *)

\* C10: do_action never raises: whatever the server does, a matched Action
\* resolves to a returned string beginning with "Observation:\n", and a text
\* without a matching Action resolves to None.
C10_NeverRaises ==
    da_pc = "returned" =>
        /\ ~da_out.propagates
        /\ da_out.matched
              => (da_out.ret.t = "str" /\ StartsWith(da_out.ret.s, "Observation:\n"))
        /\ ~da_out.matched => (da_out.ret = Null /\ ~da_out.sent)

C10_Witness ==
    /\ da_pc = "returned" /\ da_out.matched /\ da_server.kind = "timeout"
    /\ da_out.ret = Str("Observation:\nError calling MCP server: Read timed out. (read timeout=10)")

\* The decoded response do_action read, when the exchange gave one.
DaResponse ==
    IF da_server.kind = "real" THEN mcp_endpoint(da_out.request, env).resp
    ELSE da_server.body

GotResponse == da_pc = "returned" /\ da_out.matched /\ da_server.kind \in {"json", "real"}

TransportFailed ==
    da_pc = "returned" /\ da_out.matched
        /\ da_server.kind \in {"refused", "timeout", "http_error", "non_json"}

\* The observation the precedence result, error, neither gives for r.
ByPrecedence(r) ==
    IF HasField(r, "result") THEN PyStr(r.d.result)
    ELSE IF HasField(r, "error")
    THEN "Error: " \o (IF HasField(r.d.error, "message")
                       THEN PyStr(r.d.error.d.message) ELSE "Unknown error")
    ELSE "Error: Invalid MCP server response"

CallingError(ret) ==
    /\ ret.t = "str"
    /\ StartsWith(ret.s, "Observation:\nError calling MCP server: ")
    /\ Len(ret.s) > Len("Observation:\nError calling MCP server: ")

\* A response that is a JSON object whose error member, where it is the one
\* consulted, is a JSON object.
ObjectEnvelope(r) ==
    /\ r.t = "dict"
    /\ ("result" \notin DOMAIN r.d /\ "error" \in DOMAIN r.d) => r.d.error.t = "dict"

\* C11 (as stated): whatever the server answers, the observation is the
\* stringified result when result is present (also next to an error), else
\* "Error: " and error.message ("Unknown error" when message is absent) when
\* error is present, else "Error: Invalid MCP server response"; a transport
\* failure gives "Error calling MCP server: " and the failure description.
C11_Original ==
    /\ GotResponse => da_out.ret = Str("Observation:\n" \o ByPrecedence(DaResponse))
    /\ TransportFailed => CallingError(da_out.ret)

\* C11 (amended): the same precedence for every response that is a JSON
\* object whose error member, when it is the one consulted, is a JSON object;
\* a transport failure, and a failure raised while reading any other response,
\* gives "Error calling MCP server: " and the failure description (a list or
\* string response that holds neither word still gives the invalid-response
\* text).
C11_Precedence ==
    /\ (GotResponse /\ ObjectEnvelope(DaResponse))
          => da_out.ret = Str("Observation:\n" \o ByPrecedence(DaResponse))
    /\ (GotResponse /\ ~ObjectEnvelope(DaResponse))
          => (CallingError(da_out.ret)
              \/ da_out.ret = Str("Observation:\nError: Invalid MCP server response"))
    /\ TransportFailed => CallingError(da_out.ret)

C11_Witness ==
    /\ GotResponse /\ da_server.kind = "json"
    /\ HasField(da_server.body, "result") /\ HasField(da_server.body, "error")
    /\ da_out.ret = Str("Observation:\nok")

FooLine == "Action: Foo: a, 'b', \"c\""

\* The positions where line stands in s as a whole line.
LineStarts(s, line) ==
    {i \in 1..(Len(s) - Len(line) + 1) :
        /\ SubSeq(s, i, i + Len(line) - 1) = line
        /\ (i = 1 \/ Ch(s, i - 1) = "\n")
        /\ (i + Len(line) - 1 = Len(s) \/ Ch(s, i + Len(line)) = "\n")}

ParsedFoo ==
    /\ da_out.matched
    /\ da_out.tool = "Foo"
    /\ da_out.args = <<"a", "b", "c">>

\* Some "Action:" with an identifier behind it stands before position p.
EarlierAction(s, p) == \E i \in 1..(p - 1) : MatchesAt(s, i)

\* C12 (as stated): for any text that contains the line
\* Action: Foo: a, 'b', "c", whatever precedes or follows it, the parser
\* yields tool name Foo and the arguments a, b, c in that order.
C12_Original ==
    (da_pc = "returned" /\ LineStarts(da_text, FooLine) # {}) => ParsedFoo

\* C12 (amended): the same for any text in which no "Action:" followed by
\* an identifier stands before that line, whatever else precedes or follows
\* it; where one does, the parser yields that earlier action instead.
C12_FirstAction ==
    (da_pc = "returned" /\ LineStarts(da_text, FooLine) # {}) =>
        IF EarlierAction(da_text, Min(LineStarts(da_text, FooLine)))
        THEN da_out.matched /\ ~ParsedFoo
        ELSE ParsedFoo

C12_Witness ==
    /\ da_pc = "returned"
    /\ da_text = "PAUSE\nAction: ???\nAction: Foo: a, 'b', \"c\"\nthen wait"
    /\ ParsedFoo
    /\ da_out.request.d.params.d.input = List(<<Str("a"), Str("b"), Str("c")>>)

\* An Action naming a registered tool, sent to the server of mcp_server.py.
ToolAction ==
    /\ da_pc = "returned" /\ da_out.matched
    /\ da_server.kind = "real"
    /\ da_out.tool \in RegisteredNames

\* What the server did to the callable for that request.
DaCall == mcp_endpoint(da_out.request, env).call

DaArity == Len(tools[da_out.tool].params)

\* C19: do_action always sends params.input as the list of its arguments
\* (the empty list when there are none), so an Action reaches a registered
\* tool's body exactly when the number of comma-separated arguments is the
\* tool's parameter count: GetListOfCodeFiles without arguments is invoked
\* and its result is the Observation, and any other argument count gives an
\* Observation with the "Cannot map input" error text and no tool result.
C19_ArityDecides ==
    ToolAction =>
        /\ da_out.request.d.params.d.input =
              List([n \in 1..Len(da_out.args) |-> Str(da_out.args[n])])
        /\ DaCall.executed <=> (Len(da_out.args) = DaArity)
        /\ Len(da_out.args) # DaArity
              => (/\ StartsWith(da_out.ret.s, "Observation:\nError: Cannot map input ")
                  /\ Contains(da_out.ret.s, tools[da_out.tool].name)
                  /\ ~DaCall.attempted)
        /\ Len(da_out.args) = DaArity => ~Contains(da_out.ret.s, "Cannot map input")
        /\ (da_out.tool = "GetListOfCodeFiles" /\ da_out.args = <<>>)
              => (/\ DaCall.kind = "return"
                  /\ da_out.ret = Str("Observation:\n" \o PyStr(DaCall.value)))

C19_Witness ==
    /\ ToolAction
    /\ da_out.tool = "GetListOfCodeFiles" /\ da_out.args = <<>>
    /\ da_out.request.d.params.d.input = List(<<>>)
    /\ DaCall.executed
    /\ da_out.ret = Str("Observation:\n['App.tsx', 'index.html', 'App.tsx']")

-----------------------------------------------------------------------------
(* Properties of a run of run_agent (checked under Spec).                  *)

AssistantIdx == {n \in 1..Len(messages) : messages[n].role = "assistant"}

AnswerSeen == \E n \in AssistantIdx : Contains(messages[n].content, "Answer: ")

\* Steps run_agent can still take: it falls with every transition.
C1_Rank ==
    CASE pc = "loop"   -> 2 * (10 - iters) + 1
      [] pc = "decide" -> 2 * (10 - iters) + 2
      [] OTHER         -> 0

C1_Safety ==
    /\ model_calls <= 10
    /\ model_calls = Cardinality(AssistantIdx)
    /\ pc # "raised"
    /\ C1_Rank >= 0
    /\ pc = "loop" => (iters < 10 \/ ENABLED Exhausted)
    /\ pc = "decide"
          => ((Contains(result, "PAUSE") /\ Contains(result, "Action: "))
              \/ ENABLED Answer \/ ENABLED Continue)
    /\ (pc = "done" /\ ~AnswerSeen) => (model_calls = 10 /\ ended_by = "ceiling")

\* C1: run_agent calls ReActAgent.step at most 10 times and then returns
\* (until it has returned it is never stuck: it can begin another iteration,
\* take one of the three branches on the reply, or leave the loop; and every
\* step brings it nearer to returning); when no reply contains "Answer: " it returns
\* after exactly 10 steps, and it never ends in an exception.
C1_Terminates == []C1_Safety /\ [][C1_Rank' < C1_Rank]_vars

C1_Witness == pc = "done" /\ ~AnswerSeen /\ model_calls = 10 /\ tool_calls = MaxSpecial

\* C2: the value run_agent returns tells how the run ended: success carrying
\* the final text when a reply held the answer marker, and a distinct
\* incomplete-run value when the ceiling was reached without an answer.
C2_OutcomeTellsEnding ==
    pc = "done" =>
        /\ ended_by = "answer"
              => (returned.t = "str" /\ returned.s # "" /\ Contains(result, returned.s))
        /\ ended_by = "ceiling" => returned = [t |-> "incomplete"]

\* A reply that ends the run: the answer marker without PAUSE plus Action.
Stops(reply) ==
    Contains(reply, "Answer: ") /\ ~(Contains(reply, "PAUSE") /\ Contains(reply, "Action: "))

Replied(n) == messages[CHOOSE m \in AssistantIdx : Cardinality({k \in AssistantIdx : k <= m}) = n].content

\* C3: the run stops at the first reply that holds "Answer: " and not both
\* "PAUSE" and "Action: ": no model call and no tool call follows it.  A model
\* that replies PAUSE plus an Action and then, after the Observation,
\* "Answer: done" is called twice, with one tool call.
C3_StopsAtAnswer ==
    /\ \A n \in AssistantIdx :
          Stops(messages[n].content)
              => (n = Len(messages) /\ pc \in {"decide", "done"}
                  /\ tool_calls <= Cardinality(AssistantIdx) - 1)
    /\ (pc = "done" /\ ended_by = "answer")
          => (Stops(result) /\ messages[Len(messages)].content = result)
    /\ (pc = "done" /\ Cardinality(AssistantIdx) = 2
          /\ Replied(1) = ActionReply
          /\ Replied(2) = "Answer: done")
          => (model_calls = 2 /\ tool_calls = 1)

C3_Witness ==
    /\ pc = "done" /\ ended_by = "answer"
    /\ Cardinality(AssistantIdx) = 2
    /\ Replied(1) = ActionReply
    /\ Replied(2) = "Answer: done"
    /\ messages[Len(messages) - 1] = [role |-> "user", content |-> "Observation:\n// copy"]
    /\ model_calls = 2 /\ tool_calls = 1

\* A reply with neither PAUSE plus an Action line nor the answer marker.
Neither(reply) ==
    /\ ~(Contains(reply, "PAUSE") /\ Contains(reply, "Action: "))
    /\ ~Contains(reply, "Answer: ")

EmptyInput(v) == v = Null \/ (v.t = "str" /\ Strip(v.s) = "")

\* C13: after a reply that holds neither PAUSE with an Action line nor the
\* answer marker, the loop continues with empty pending input, and the next
\* step appends no user message: the next reply follows that reply directly
\* in the conversation, whatever the pending input was in earlier steps.
C13_EmptyAfterNeither ==
    /\ (pc = "loop" /\ iters >= 1 /\ Neither(result)) => EmptyInput(next_prompt)
    /\ (pc = "decide" /\ Cardinality(AssistantIdx) >= 2
          /\ Neither(messages[Max(AssistantIdx \ {Len(messages)})].content))
          => messages[Len(messages) - 1].role = "assistant"

\* A reply with PAUSE and an "Action: " line that the parser makes no
\* action of, and with the answer marker.
UnparsableWithAnswer(reply) ==
    /\ Contains(reply, "PAUSE") /\ Contains(reply, "Action: ")
    /\ ~re_search(reply).matched
    /\ Contains(reply, "Answer: ")

\* C14: a reply whose action text the parser yields no action for is treated
\* as having no action and goes on to the answer check: a reply that holds
\* "PAUSE", an unparsable "Action: " line and "Answer: " ends the loop at
\* that step, so it is the last message and no further iteration begins.
C14_ParseFailureToAnswerCheck ==
    /\ UnparsableWithAnswer(result)
          => (pc \in {"decide", "done"} /\ (pc = "done" => ended_by = "answer"))
    /\ \A n \in AssistantIdx :
          UnparsableWithAnswer(messages[n].content) => n = Len(messages)

\* A tool call has just been made for the latest reply.
JustActed == wants_action(result) /\ last_action.sent

ObservationMessage == [role |-> "user", content |-> last_action.ret.s]

\* C15 (as stated): the Observation of every tool call made during a run,
\* the 10th iteration included, is in the conversation as a user message,
\* followed by a reply of the model, when the run has ended.
C15_Original ==
    (pc = "done" /\ last_action.sent) =>
        \E n \in 1..(Len(messages) - 1) :
            messages[n] = ObservationMessage /\ messages[n + 1].role = "assistant"

\* C15 (amended): the Observation of every tool call made in iterations 1
\* to 9 is the pending input of the next step, which appends it as a user
\* message and then the model's reply; the Observation of a tool call made
\* in the 10th iteration is left as pending input when the run ends and is
\* never appended or sent.
C15_ObservationSent ==
    /\ []((pc = "loop" /\ JustActed) =>
            (next_prompt = last_action.ret /\ has_input(next_prompt)))
    /\ [][(pc = "loop" /\ JustActed /\ pc' = "decide") =>
            (iters < 10 /\ messages' = messages \o
                <<ObservationMessage, [role |-> "assistant", content |-> result']>>)]_vars
    /\ [][(pc = "loop" /\ JustActed /\ pc' = "done") =>
            (iters = 10 /\ messages' = messages
             /\ messages[Len(messages)] = [role |-> "assistant", content |-> result])]_vars

C15_Witness ==
    /\ pc = "decide" /\ iters = 10 /\ tool_calls = 1 /\ last_action.sent
    /\ messages[Len(messages) - 1] = ObservationMessage
    /\ messages[Len(messages)].role = "assistant"

ActionReplies == {n \in AssistantIdx : wants_action(messages[n].content)}

\* C18: the run is sequential and nothing is retried.  A request goes to the
\* tool server only for a reply the model has already given in the same
\* iteration, one request at most for that reply (a timeout or failure
\* included), and the loop is back at its head with the Observation as
\* pending input before anything else happens; a model call is made only at
\* the head of the loop, after the tool call of the iteration before has
\* resolved to its Observation; no step makes or completes both a model call
\* and a tool call.
C18_Sequential ==
    /\ [](tool_calls <= Cardinality(ActionReplies))
    /\ [][tool_calls' # tool_calls =>
            /\ tool_calls' = tool_calls + 1
            /\ model_calls' = model_calls
            /\ pc = "decide" /\ model_calls = iters
            /\ wants_action(result)
            /\ messages[Len(messages)] = [role |-> "assistant", content |-> result]
            /\ pc' = "loop"
            /\ next_prompt'.t = "str" /\ StartsWith(next_prompt'.s, "Observation:\n")]_vars
    /\ [][model_calls' # model_calls =>
            /\ model_calls' = model_calls + 1
            /\ tool_calls' = tool_calls
            /\ pc = "loop" /\ model_calls = iters
            /\ JustActed => (next_prompt = last_action.ret /\ next_prompt.t = "str")]_vars

C18_Witness ==
    /\ pc = "decide" /\ model_calls = 2 /\ tool_calls = 1
    /\ last_action.sent
    /\ last_action.ret = Str("Observation:\nError calling MCP server: Read timed out. (read timeout=10)")
    /\ messages[Len(messages) - 1] = ObservationMessage

IsPrefix(a, b) == Len(a) <= Len(b) /\ SubSeq(b, 1, Len(a)) = a

\* C4: the conversation always starts with a system message, and every
\* transition only appends to it.
C4_AppendOnly ==
    /\ [](Len(messages) >= 1 /\ messages[1].role = "system")
    /\ [][IsPrefix(messages, messages')]_vars

C4_Witness ==
    /\ Len(messages) >= 5
    /\ messages[1].role = "system"
    /\ messages[2].role = "user" /\ messages[4].role = "user"

\* The messages a transition has appended.
Appended(old, new) == SubSeq(new, Len(old) + 1, Len(new))

Roles(msgs) == [n \in 1..Len(msgs) |-> msgs[n].role]

\* C20: the conversation never holds two consecutive user messages; each
\* step appends one assistant message, after at most one user message, and
\* nothing else appends; so after k steps the conversation holds k assistant
\* messages and at most 1 + 2k messages, at most 21 in a whole run.
C20_Shape ==
    /\ [](/\ \A n \in 1..(Len(messages) - 1) :
                ~(messages[n].role = "user" /\ messages[n + 1].role = "user")
          /\ Cardinality(AssistantIdx) = iters
          /\ Len(messages) <= 1 + 2 * iters
          /\ Len(messages) <= 21)
    /\ [][/\ IsPrefix(messages, messages')
          /\ iters' = iters + 1
                => Roles(Appended(messages, messages')) \in
                      {<<"assistant">>, <<"user", "assistant">>}
          /\ iters' = iters => messages' = messages]_vars

C20_Witness ==
    /\ pc = "done" /\ iters = 10
    /\ Len(messages) = 21
    /\ Cardinality(AssistantIdx) = 10

====
